---- MODULE Spec2Model ----
(***************************************************************************)
(* Model of src/src/App.jsx: the App component's state (useState cells),   *)
(* its click handlers, the two asynchronous orchestrations                 *)
(* (fetchGiftSuggestions, generateCardMessage), the gateway client         *)
(* callGeminiApi and the link rewriter processRetailerLink.                *)
(*                                                                         *)
(* JavaScript strings are modelled as sequences of tokens (each token a    *)
(* run of characters that no operation of the program splits), so that     *)
(* trim(), includes(), template literals and encodeURIComponent are        *)
(* computed, not assumed.  A JavaScript value is a record                  *)
(* [type, s]: type is the typeof-like tag, s the token sequence of         *)
(* String(value).                                                          *)
(***************************************************************************)
EXTENDS Integers, Sequences, FiniteSets, TLC

VARIABLES
    occasion,             \* useState('')    line 66 (token sequence)
    giftIdeas,            \* useState([])    line 69
    isLoading,            \* useState(false) line 70
    error,                \* useState(null)  line 71 (JS value: null or string)
    cardMessage,          \* useState('')    line 72 (token sequence)
    isGeneratingMessage,  \* useState(false) line 73
    giftIdeasHistory,     \* useState([])    line 76
    historyIndex,         \* useState(-1)    line 77
    inflight,             \* the suspended async handlers, oldest first: which
                          \* handler awaits the gateway, and the historyIndex
                          \* its closure captured
    last                  \* history variable: the handler step that ran last,
                          \* the gateway response it consumed and the state
                          \* seen when the pending/last request was triggered
VARIABLE
    call                  \* the last direct application of one of the pure
                          \* helpers (processRetailerLink, the prompt
                          \* builders): its arguments and what it produced

vars == <<occasion, giftIdeas, isLoading, error, cardMessage,
          isGeneratingMessage, giftIdeasHistory, historyIndex, inflight, last,
          call>>

\* Bound on the length of giftIdeasHistory explored by the model.
MaxHistory == 3

-----------------------------------------------------------------------------
(* JavaScript values and strings *)

Null == [type |-> "null", s |-> <<>>]
Undefined == [type |-> "undefined", s |-> <<>>]
Str(s) == [type |-> "string", s |-> s]

\* A token that stands for an unpaired UTF-16 surrogate.
LoneSurrogate == "<U+D83D>"

\* s.trim() is empty: every token is white space.
IsBlank(s) == \A i \in 1..Len(s) : s[i] = " "

\* String.prototype.includes at token granularity: sub occurs contiguously.
Includes(s, sub) ==
    \E i \in 0..(Len(s) - Len(sub)) :
        \A j \in 1..Len(sub) : s[i + j] = sub[j]

\* JavaScript truthiness of a value (for `giftName || ''`).
Truthy(v) ==
    /\ v.type \notin {"undefined", "null"}
    /\ v.s # <<>>

\* encodeURIComponent on one token: reserved characters are percent-encoded,
\* unreserved ones are kept.
EncodeToken(t) ==
    CASE t = " "  -> "%20"
      [] t = "&"  -> "%26"
      [] t = "/"  -> "%2F"
      [] OTHER    -> t

\* encodeURIComponent: throws URIError on an unpaired surrogate.
EncodeURIComponent(s) ==
    IF \E i \in 1..Len(s) : s[i] = LoneSurrogate
    THEN [threw |-> TRUE, s |-> <<"URI malformed">>]
    ELSE [threw |-> FALSE, s |-> [i \in 1..Len(s) |-> EncodeToken(s[i])]]

-----------------------------------------------------------------------------
(* URL parsing (new URL(originalLink)), as far as the rewriter uses it *)

Schemes == {"https://", "http://"}
HostTokens == {"www.", "amazon", "etsy", "target", "bestbuy", "brandsite",
               "shop", ".", ".com", ".co", ".uk", ".ca", ".de", ".fr", ".it",
               ".es", ".jp", ".au", ".in", ".example"}

\* Number of leading host tokens after the scheme.
RECURSIVE HostLen(_, _)
HostLen(s, i) ==
    IF i <= Len(s) /\ s[i] \in HostTokens THEN 1 + HostLen(s, i + 1) ELSE 0

\* A token that may begin what follows the host.
StartsPath(t) == t \in {"/", "/dp/", "/listing/", "/product/", "/s?k=", "?q="}

\* new URL(s) succeeds: a scheme, a non-empty host, then nothing or a path.
ParsesAsURL(s) ==
    /\ Len(s) >= 2
    /\ s[1] \in Schemes
    /\ HostLen(s, 2) >= 1
    /\ \/ 1 + HostLen(s, 2) = Len(s)
       \/ StartsPath(s[2 + HostLen(s, 2)])

\* url.hostname
Hostname(s) == SubSeq(s, 2, 1 + HostLen(s, 2))

AMAZON_ASSOCIATE_TAG == "realstory-20"

amazonDomains ==
    { <<"amazon", ".com">>, <<"amazon", ".co", ".uk">>, <<"amazon", ".ca">>,
      <<"amazon", ".de">>, <<"amazon", ".fr">>, <<"amazon", ".it">>,
      <<"amazon", ".es">>, <<"amazon", ".co", ".jp">>,
      <<"amazon", ".com", ".au">>, <<"amazon", ".in">> }

\* The rewrite chosen for a parsed link (lines 135-146).
RewriteParsed(originalLink, searchTerm) ==
    LET hostname == Hostname(originalLink) IN
    IF \E domain \in amazonDomains : Includes(hostname, domain)
    THEN <<"https://">> \o hostname \o <<"/s?k=">> \o searchTerm
            \o <<"&tag=", AMAZON_ASSOCIATE_TAG>>
    ELSE IF Includes(hostname, <<"etsy", ".com">>)
    THEN <<"https://", "www.", "etsy", ".com", "/search?q=">> \o searchTerm
    ELSE IF Includes(hostname, <<"target", ".com">>)
    THEN <<"https://", "www.", "target", ".com", "/s?searchTerm=">>
            \o searchTerm
    ELSE IF Includes(hostname, <<"bestbuy", ".com">>)
    THEN <<"https://", "www.", "bestbuy", ".com",
           "/site/searchpage.jsp?st=">> \o searchTerm
    ELSE originalLink

\* processRetailerLink(originalLink, giftName): the returned string, or the
\* exception thrown by encodeURIComponent, which runs outside the try block.
processRetailerLink(originalLink, giftName) ==
    IF originalLink.type # "string" \/ IsBlank(originalLink.s)
    THEN [threw |-> FALSE, s |-> <<"#">>]
    ELSE LET searchTerm ==
                 EncodeURIComponent(IF Truthy(giftName) THEN giftName.s
                                    ELSE <<>>)
         IN  IF searchTerm.threw THEN searchTerm
             ELSE IF ParsesAsURL(originalLink.s)
             THEN [threw |-> FALSE,
                   s |-> RewriteParsed(originalLink.s, searchTerm.s)]
             ELSE [threw |-> FALSE, s |-> <<"#">>]

-----------------------------------------------------------------------------
(* Gateway responses *)

\* A gift as the API returns it.
Gift(name, link) ==
    [name |-> name, description |-> Str(<<"nice">>), purchaseLink |-> link]

AmazonLink == Str(<<"https://", "www.", "amazon", ".com", "/dp/", "B01">>)
EtsyLink == Str(<<"https://", "www.", "etsy", ".com", "/listing/", "77">>)
BrandLink == Str(<<"https://", "brandsite", ".example", "/product/", "123">>)
BadLink == Str(<<"not", " ", "a", " ", "url">>)

SixGifts ==
    << Gift(Str(<<"Mug">>), AmazonLink),
       Gift(Str(<<"Tea", " ", "Set">>), EtsyLink),
       Gift(Str(<<"Lamp">>), BrandLink),
       Gift(Str(<<"Pen">>), BadLink),
       Gift(Undefined, AmazonLink),
       Gift(Str(<<"Socks">>), Undefined) >>

TwoGifts ==
    << Gift(Str(<<"Book", "&", "Mark">>), EtsyLink),
       Gift(Str(<<"Mug">>), Str(<<>>)) >>

\* A gift whose name holds an unpaired surrogate (JSON "\ud83d").
UnencodableGifts == << Gift(Str(<<"Gift", LoneSurrogate>>), BrandLink) >>

\* The value JSON.parse yields for the text of the first candidate part.
JsonArray(items) == [kind |-> "array", items |-> items]
JsonObject == [kind |-> "object", items |-> <<>>]
NotJson == [kind |-> "unparsable", items |-> <<>>]

\* Text of candidates[0].content.parts[0]: its characters and its JSON reading.
Texts ==
    { [raw |-> <<"[6 gifts]">>, json |-> JsonArray(SixGifts)],
      [raw |-> <<"[2 gifts]">>, json |-> JsonArray(TwoGifts)],
      [raw |-> <<"[1 gift, bad name]">>, json |-> JsonArray(UnencodableGifts)],
      [raw |-> <<"{}">>, json |-> JsonObject],
      [raw |-> <<"Happy", " ", "birthday!">>, json |-> NotJson] }

NoText == [raw |-> <<>>, json |-> NotJson]

\* What fetch() and response.json() deliver.
\*   transport: fetch() itself rejects
\*   status:    HTTP status (response.ok is 200..299)
\*   body:      "nonjson"  response.json() rejects
\*              "noerror"  JSON without an error object
\*              "nomsg"    JSON with error but no error.message
\*              "msg"      JSON with error.message
\*              "empty"    JSON without a usable candidates path
\*              "content"  JSON with candidates[0].content.parts[0].text
Response(transport, status, body, text) ==
    [transport |-> transport, status |-> status, body |-> body, text |-> text]

Responses ==
    { Response(TRUE, 0, "nonjson", NoText) }
    \cup { Response(FALSE, 500, b, NoText) :
              b \in {"nonjson", "noerror", "nomsg", "msg"} }
    \cup { Response(FALSE, 200, b, NoText) : b \in {"nonjson", "empty"} }
    \cup { Response(FALSE, 200, "content", t) : t \in Texts }

NoResponse == Response(FALSE, 0, "none", NoText)

\* `${response.status}`
StatusString(status) ==
    CASE status = 200 -> "200"
      [] status = 500 -> "500"
      [] OTHER -> "0"

\* response.statusText
StatusText(status) ==
    CASE status = 200 -> "OK"
      [] status = 500 -> "Internal Server Error"
      [] OTHER -> ""

Threw(message) == [threw |-> TRUE, message |-> message, text |-> NoText]
Returned(text) == [threw |-> FALSE, message |-> <<>>, text |-> text]

\* callGeminiApi up to the choice by mimeType: the resolved text of the first
\* candidate part, or the Error it rejects with (its message).
callGeminiApi(resp, mimeType) ==
    IF resp.transport THEN Threw(<<"Failed to fetch">>)
    ELSE IF resp.status \notin 200..299
    THEN \* lines 179-182
         IF resp.body = "nonjson"
           THEN Threw(<<"Unexpected token < in JSON at position 0">>)
         ELSE IF resp.body \notin {"nomsg", "msg"}
           THEN Threw(<<"Cannot read properties of undefined (reading 'message')">>)
         ELSE Threw(<<"API error: ", StatusString(resp.status), " ",
                      StatusText(resp.status), " - ",
                      IF resp.body = "msg" THEN "quota exceeded"
                      ELSE "Unknown error">>)
    ELSE \* lines 184-191
         IF resp.body = "nonjson"
           THEN Threw(<<"Unexpected token < in JSON at position 0">>)
         ELSE IF resp.body # "content"
           THEN Threw(<<"No content received from API.">>)
         ELSE IF mimeType = "application/json" /\ resp.text.json.kind = "unparsable"
           THEN Threw(<<"Unexpected token H in JSON at position 0">>)
         ELSE Returned(resp.text)

-----------------------------------------------------------------------------
(* Pieces of the handlers *)

\* The argument of parsedJson.slice(0, 5)  (line 235).
SliceLimit == 5

Min(a, b) == IF a <= b THEN a ELSE b

\* parsedJson.slice(0, 5).map(gift => ({...gift, purchaseLink: ...}))
\* (lines 235-238): the processed ideas, or the first exception thrown by
\* the mapping function.
ProcessGifts(items) ==
    LET kept == SubSeq(items, 1, Min(Len(items), SliceLimit))
        res == [i \in 1..Len(kept) |->
                   processRetailerLink(kept[i].purchaseLink, kept[i].name)]
        bad == {i \in 1..Len(kept) : res[i].threw}
    IN  IF bad # {}
        THEN [threw |-> TRUE,
              message |-> res[CHOOSE i \in bad : \A j \in bad : i <= j].s,
              ideas |-> <<>>]
        ELSE [threw |-> FALSE, message |-> <<>>,
              ideas |-> [i \in 1..Len(kept) |->
                           [kept[i] EXCEPT !.purchaseLink = Str(res[i].s)]]]

\* Variant of PushHistory: the slice stops one entry early.
PushHistoryOffByOne(prevHistory, capturedIndex, entry) ==
    Append(SubSeq(prevHistory, 1, capturedIndex), entry)

\* Variant of PushHistory: the entries after the cursor are kept.
PushHistoryNoTruncate(prevHistory, capturedIndex, entry) ==
    Append(prevHistory, entry)

\* The updater passed to setGiftIdeasHistory (lines 240-243); capturedIndex is
\* the historyIndex of the handler's closure.
PushHistory(prevHistory, capturedIndex, entry) ==
    Append(SubSeq(prevHistory, 1, capturedIndex + 1), entry)

\* The updater passed to setHistoryIndex (line 244).
NextIndex(prevIndex) == prevIndex + 1

\* The message set by the catch block of fetchGiftSuggestions (line 251).
FetchErrorMessage(message) ==
    Str(<<"Failed to fetch gift suggestions: ">> \o message
        \o <<". Please try again.">>)

\* The message set on a non-array result (line 246).
ShapeErrorMessage ==
    Str(<<"Received unexpected data format from API. Please try again.">>)

\* The catch block of generateCardMessage (lines 281-282).
MessageErrorMessage(message) ==
    Str(<<"Failed to generate card message: ">> \o message \o <<".">>)

CardErrorText == <<"Error generating message. Please try again.">>

\* Variant of FindGiftsDisabled: the message flag is not consulted.
FindGiftsDisabledIgnoresMessage ==
    isLoading \/ IsBlank(occasion)

\* Variant of BackDisabled: the fetch flag is not consulted.
BackDisabledIgnoresLoading ==
    historyIndex <= 0 \/ isGeneratingMessage

\* disabled= conditions of the controls (lines 452, 460, 468, 480, 488).
FindGiftsDisabled ==
    isLoading \/ isGeneratingMessage \/ IsBlank(occasion)
RefreshDisabled ==
    isLoading \/ isGeneratingMessage \/ Len(giftIdeas) = 0 \/ IsBlank(occasion)
GenerateDisabled ==
    isGeneratingMessage \/ isLoading \/ IsBlank(occasion)
BackDisabled ==
    historyIndex <= 0 \/ isLoading \/ isGeneratingMessage
ForwardDisabled ==
    historyIndex >= Len(giftIdeasHistory) - 1 \/ isLoading \/ isGeneratingMessage
InputsDisabled == isLoading \/ isGeneratingMessage

\* A handler suspended at `await callGeminiApi(...)`.
Pending(op, capturedIndex) == [op |-> op, historyIndex |-> capturedIndex]

\* The pending handlers without the i-th, which has resumed.
Resume(pending, i) ==
    SubSeq(pending, 1, i - 1) \o SubSeq(pending, i + 1, Len(pending))

\* Variant of IsArray: any JSON container passes (typeof x === 'object').
IsArrayLoose(json) == json.kind \in {"array", "object"}

\* Array.isArray(parsedJson) (line 234).
IsArray(json) == json.kind = "array"

\* Variant of LoadingAfterFetch: the flag is cleared at the end of the try
\* body only.
LoadingAfterFetchNoFinally(threw) == threw

\* isLoading after the try/catch/finally of fetchGiftSuggestions
\* (lines 252-254): cleared whether or not the body threw.
LoadingAfterFetch(threw) == FALSE

\* isGeneratingMessage after the try/catch/finally of generateCardMessage
\* (lines 283-285).
GeneratingAfterMessage(threw) == FALSE

\* The state a handler sees when it is triggered.
Snapshot ==
    [occasion |-> occasion, giftIdeas |-> giftIdeas,
     giftIdeasHistory |-> giftIdeasHistory, historyIndex |-> historyIndex,
     isLoading |-> isLoading, error |-> error]

Did(op, resp, pre) == [op |-> op, resp |-> resp, pre |-> pre]

-----------------------------------------------------------------------------
(* Prompt building *)

\* The criteria cells (lines 59-66) as one record of strings.
Criteria(occ, rel, ag, gen, intr, evt, minP, maxP) ==
    [occasion |-> occ, relationship |-> rel, age |-> ag, gender |-> gen,
     interests |-> intr, notableEvents |-> evt, minPrice |-> minP,
     maxPrice |-> maxP]

\* Every field empty or filled with one sample value.
CriteriaRecords ==
    { Criteria(occ, rel, ag, gen, intr, evt, minP, maxP) :
        occ \in {<<>>, <<"birthday">>}, rel \in {<<>>, <<"friend">>},
        ag \in {<<>>, <<"30">>}, gen \in {<<>>, <<"she">>},
        intr \in {<<>>, <<"tea">>}, evt \in {<<>>, <<"graduation">>},
        minP \in {<<>>, <<"20">>}, maxP \in {<<>>, <<"50">>} }

\* Variant of Clause: the clause is pushed whether or not the field is set.
ClauseAlways(value, lead, tail) == << <<lead>> \o value \o <<tail>> >>

\* `if (value) parts.push(`${lead}${value}${tail}`)`: the pushed clauses.
Clause(value, lead, tail) ==
    IF value # <<>> THEN << <<lead>> \o value \o <<tail>> >> ELSE << >>

\* priceRangeString (lines 202-205).
PriceRangeString(minPrice, maxPrice) ==
    IF minPrice # <<>> /\ maxPrice # <<>>
    THEN <<"between $">> \o minPrice \o <<" and $">> \o maxPrice
    ELSE IF minPrice # <<>> THEN <<"above $">> \o minPrice
    ELSE IF maxPrice # <<>> THEN <<"up to $">> \o maxPrice
    ELSE <<>>

\* Array.prototype.join(' ')
RECURSIVE Join(_)
Join(parts) ==
    IF parts = <<>> THEN <<>>
    ELSE IF Len(parts) = 1 THEN parts[1]
    ELSE parts[1] \o <<" ">> \o Join(Tail(parts))

\* mainPrompt of fetchGiftSuggestions (lines 207-217).
GiftPrompt(c) ==
    Join( << <<"I need a gift suggestion for someone.">> >>
          \o Clause(c.occasion, "The occasion is ", ".")
          \o Clause(c.relationship, "They are my ", ".")
          \o Clause(c.age, "They are ", " years old.")
          \o Clause(c.gender, "Their gender is ", ".")
          \o Clause(c.notableEvents,
                    "Notable events in their life include ", ".")
          \o Clause(c.interests, "They are interested in ", ".")
          \o Clause(PriceRangeString(c.minPrice, c.maxPrice),
                    "The price range should be ", ".") )
    \o <<" Please provide a list of at least 5 varied and diverse gift ideas.">>

\* fullMessagePrompt of generateCardMessage (lines 265-274).
MessagePrompt(c) ==
    Join( << <<"Write a heartfelt and creative gift card message or a short poem.">> >>
          \o Clause(c.occasion, "The occasion is ", ".")
          \o Clause(c.relationship, "The recipient is my ", ".")
          \o Clause(c.age, "They are ", " years old.")
          \o Clause(c.gender, "Their gender is ", ".")
          \o Clause(c.interests, "They are interested in ", ".")
          \o Clause(c.notableEvents, "They have been busy with ", ".") )
    \o <<" Make sure the message is suitable for the context and tone.">>

-----------------------------------------------------------------------------
(* Direct applications of the pure helpers *)

NoCriteria == Criteria(<<>>, <<>>, <<>>, <<>>, <<>>, <<>>, <<>>, <<>>)

NoCall ==
    [fn |-> "none", link |-> Undefined, name |-> Undefined,
     out |-> [threw |-> FALSE, s |-> <<>>], criteria |-> NoCriteria,
     giftPrompt |-> <<>>, messagePrompt |-> <<>>]

\* Values a gift's purchaseLink may hold.
Links ==
    { Undefined, Null, [type |-> "number", s |-> <<"42">>],
      Str(<<>>), Str(<<" ">>), BadLink, AmazonLink, EtsyLink, BrandLink,
      Str(<<"https://", "www.", "amazon", ".co", ".uk", "/dp/", "B02">>),
      Str(<<"https://", "www.", "target", ".com", "/p/", "9">>),
      Str(<<"https://", "www.", "bestbuy", ".com", "/site/", "9">>),
      Str(<<"https://", "etsy", ".com", ".", "amazon", ".com", "/dp/",
            "target", ".com">>),
      Str(<<"https://", "target", ".com", ".", "etsy", ".com">>),
      Str(<<"https://", "bestbuy", ".com", ".", "target", ".com", "/", "x">>),
      Str(<<"https://", "brandsite", ".example", "/product/", "amazon",
            ".com">>),
      Str(<<"https://", "shop", ".example", "?q=", "etsy", ".com">>),
      Str(<<"https://", "shop", ".example", "/", "bestbuy", ".com", "/",
            "target", ".com">>) }

\* Values a gift's name may hold.
Names ==
    { Undefined, Null, [type |-> "number", s |-> <<"7">>], Str(<<>>),
      Str(<<"Mug">>), Str(<<"Tea", " ", "Set">>),
      Str(<<"Gift", LoneSurrogate>>) }

\* processRetailerLink(link, name) is applied.
ApplyRewriter(link, name) ==
    /\ call' = [NoCall EXCEPT !.fn = "processRetailerLink", !.link = link,
                              !.name = name,
                              !.out = processRetailerLink(link, name)]
    /\ UNCHANGED <<occasion, giftIdeas, isLoading, error, cardMessage,
                   isGeneratingMessage, giftIdeasHistory, historyIndex,
                   inflight, last>>

\* Both prompts are built from the criteria c.
ApplyPrompts(c) ==
    /\ call' = [NoCall EXCEPT !.fn = "prompts", !.criteria = c,
                              !.giftPrompt = GiftPrompt(c),
                              !.messagePrompt = MessagePrompt(c)]
    /\ UNCHANGED <<occasion, giftIdeas, isLoading, error, cardMessage,
                   isGeneratingMessage, giftIdeasHistory, historyIndex,
                   inflight, last>>

-----------------------------------------------------------------------------
(* The state machine *)

Occasions == { <<>>, <<"birthday">> }

Init ==
    /\ occasion = <<>>
    /\ giftIdeas = <<>>
    /\ isLoading = FALSE
    /\ error = Null
    /\ cardMessage = <<>>
    /\ isGeneratingMessage = FALSE
    /\ giftIdeasHistory = <<>>
    /\ historyIndex = -1
    /\ inflight = <<>>
    /\ last = Did("init", NoResponse, Snapshot)
    /\ call = NoCall

\* handleOccasionChange (line 97) on the occasion select (lines 345-353).
SetOccasion(v) ==
    /\ ~InputsDisabled
    /\ v # occasion
    /\ occasion' = v
    /\ last' = Did("setOccasion", NoResponse, Snapshot)
    /\ UNCHANGED <<call, giftIdeas, isLoading, error, cardMessage,
                   isGeneratingMessage, giftIdeasHistory, historyIndex,
                   inflight>>

\* Variant of ClickFetch: the displayed ideas are not cleared on entry.
ClickFetchKeepsIdeas ==
    /\ ~FindGiftsDisabled \/ ~RefreshDisabled
    /\ historyIndex + 2 <= MaxHistory
    /\ error' = Null
    /\ isLoading' = TRUE
    /\ inflight' = Append(inflight, Pending("fetch", historyIndex))
    /\ last' = Did("fetchStart", NoResponse, Snapshot)
    /\ UNCHANGED <<call, occasion, giftIdeas, cardMessage, isGeneratingMessage,
                   giftIdeasHistory, historyIndex>>

\* A click on Find Gifts or on Refresh Gift Ideas: fetchGiftSuggestions up to
\* its await (lines 197-233).
ClickFetch ==
    /\ ~FindGiftsDisabled \/ ~RefreshDisabled
    /\ historyIndex + 2 <= MaxHistory
    /\ giftIdeas' = <<>>
    /\ error' = Null
    /\ isLoading' = TRUE
    /\ inflight' = Append(inflight, Pending("fetch", historyIndex))
    /\ last' = Did("fetchStart", NoResponse, Snapshot)
    /\ UNCHANGED <<call, occasion, cardMessage, isGeneratingMessage,
                   giftIdeasHistory, historyIndex>>

\* The gateway call of the i-th pending handler, a fetch, settles:
\* fetchGiftSuggestions from the await to the end (lines 233-254).
FetchSettle(i, resp) ==
    /\ inflight[i].op = "fetch"
    /\ LET r == callGeminiApi(resp, "application/json")
           isArray == ~r.threw /\ IsArray(r.text.json)
           p == IF isArray THEN ProcessGifts(r.text.json.items)
                ELSE [threw |-> FALSE, message |-> <<>>, ideas |-> <<>>]
       IN  /\ IF r.threw \/ p.threw
              THEN /\ error' = FetchErrorMessage(IF r.threw THEN r.message
                                                 ELSE p.message)
                   /\ last' = Did("fetchFailed", resp, last.pre)
                   /\ UNCHANGED <<giftIdeas, giftIdeasHistory, historyIndex>>
              ELSE IF isArray
              THEN /\ giftIdeas' = p.ideas
                   /\ giftIdeasHistory' =
                         PushHistory(giftIdeasHistory, inflight[i].historyIndex,
                                     p.ideas)
                   /\ historyIndex' = NextIndex(historyIndex)
                   /\ last' = Did("fetchPublished", resp, last.pre)
                   /\ UNCHANGED error
              ELSE /\ error' = ShapeErrorMessage
                   /\ last' = Did("fetchShapeError", resp, last.pre)
                   /\ UNCHANGED <<giftIdeas, giftIdeasHistory, historyIndex>>
           /\ isLoading' = LoadingAfterFetch(r.threw \/ p.threw)
    /\ inflight' = Resume(inflight, i)
    /\ UNCHANGED <<call, occasion, cardMessage, isGeneratingMessage>>

\* Variant of ClickGenerate: it clears the displayed ideas as the fetch does.
ClickGenerateClearsIdeas ==
    /\ ~GenerateDisabled
    /\ cardMessage' = <<>>
    /\ giftIdeas' = <<>>
    /\ isGeneratingMessage' = TRUE
    /\ error' = Null
    /\ inflight' = Append(inflight, Pending("message", historyIndex))
    /\ last' = Did("messageStart", NoResponse, Snapshot)
    /\ UNCHANGED <<call, occasion, isLoading, giftIdeasHistory, historyIndex>>

\* A click on Generate Card Message: generateCardMessage up to its await
\* (lines 260-277).
ClickGenerate ==
    /\ ~GenerateDisabled
    /\ cardMessage' = <<>>
    /\ isGeneratingMessage' = TRUE
    /\ error' = Null
    /\ inflight' = Append(inflight, Pending("message", historyIndex))
    /\ last' = Did("messageStart", NoResponse, Snapshot)
    /\ UNCHANGED <<call, occasion, giftIdeas, isLoading, giftIdeasHistory,
                   historyIndex>>

\* The gateway call of the i-th pending handler, a message generation,
\* settles: generateCardMessage from the await to the end (lines 277-285).
MessageSettle(i, resp) ==
    /\ inflight[i].op = "message"
    /\ LET r == callGeminiApi(resp, "text/plain")
       IN  /\ IF r.threw
              THEN /\ error' = MessageErrorMessage(r.message)
                   /\ cardMessage' = CardErrorText
                   /\ last' = Did("messageFailed", resp, last.pre)
              ELSE /\ cardMessage' = r.text.raw
                   /\ last' = Did("messageDone", resp, last.pre)
                   /\ UNCHANGED error
           /\ isGeneratingMessage' = GeneratingAfterMessage(r.threw)
    /\ inflight' = Resume(inflight, i)
    /\ UNCHANGED <<call, occasion, giftIdeas, isLoading, giftIdeasHistory,
                   historyIndex>>

\* Variant of goBackInHistory: it republishes the entry at the old cursor.
goBackInHistoryStale ==
    /\ ~BackDisabled
    /\ historyIndex > 0
    /\ LET newIndex == historyIndex - 1
       IN  /\ historyIndex' = newIndex
           /\ giftIdeas' = giftIdeasHistory[historyIndex + 1]
    /\ error' = Null
    /\ last' = Did("back", NoResponse, Snapshot)
    /\ UNCHANGED <<call, occasion, isLoading, cardMessage, isGeneratingMessage,
                   giftIdeasHistory, inflight>>

\* A click on Back: goBackInHistory (lines 291-298).
goBackInHistory ==
    /\ ~BackDisabled
    /\ historyIndex > 0
    /\ LET newIndex == historyIndex - 1
       IN  /\ historyIndex' = newIndex
           /\ giftIdeas' = giftIdeasHistory[newIndex + 1]
    /\ error' = Null
    /\ last' = Did("back", NoResponse, Snapshot)
    /\ UNCHANGED <<call, occasion, isLoading, cardMessage, isGeneratingMessage,
                   giftIdeasHistory, inflight>>

\* A click on Forward: goForwardInHistory (lines 303-310).
goForwardInHistory ==
    /\ ~ForwardDisabled
    /\ historyIndex < Len(giftIdeasHistory) - 1
    /\ LET newIndex == historyIndex + 1
       IN  /\ historyIndex' = newIndex
           /\ giftIdeas' = giftIdeasHistory[newIndex + 1]
    /\ error' = Null
    /\ last' = Did("forward", NoResponse, Snapshot)
    /\ UNCHANGED <<call, occasion, isLoading, cardMessage, isGeneratingMessage,
                   giftIdeasHistory, inflight>>

Next ==
    \/ \E v \in Occasions : SetOccasion(v)
    \/ ClickFetch
    \/ \E i \in 1..Len(inflight), resp \in Responses : FetchSettle(i, resp)
    \/ ClickGenerate
    \/ \E i \in 1..Len(inflight), resp \in Responses : MessageSettle(i, resp)
    \/ goBackInHistory
    \/ goForwardInHistory

Spec == Init /\ [][Next]_vars

\* Variant of goBackInHistoryHandler: the error is cleared before the test.
goBackInHistoryHandlerClearsError ==
    IF historyIndex > 0
    THEN /\ historyIndex' = historyIndex - 1
         /\ giftIdeas' = giftIdeasHistory[historyIndex]
         /\ error' = Null
         /\ last' = Did("back", NoResponse, Snapshot)
    ELSE /\ error' = Null
         /\ last' = Did("backIgnored", NoResponse, Snapshot)
         /\ UNCHANGED <<historyIndex, giftIdeas>>

\* The body of goBackInHistory (lines 291-298) with its own test, as it runs
\* when the function is invoked whatever the state of the Back control
\* (giftIdeasHistory[newIndex] is the entry at 1-based position newIndex + 1).
goBackInHistoryHandler ==
    IF historyIndex > 0
    THEN /\ historyIndex' = historyIndex - 1
         /\ giftIdeas' = giftIdeasHistory[(historyIndex - 1) + 1]
         /\ error' = Null
         /\ last' = Did("back", NoResponse, Snapshot)
    ELSE /\ last' = Did("backIgnored", NoResponse, Snapshot)
         /\ UNCHANGED <<historyIndex, giftIdeas, error>>

\* The body of goForwardInHistory (lines 303-310) with its own test.
goForwardInHistoryHandler ==
    IF historyIndex < Len(giftIdeasHistory) - 1
    THEN /\ historyIndex' = historyIndex + 1
         /\ giftIdeas' = giftIdeasHistory[(historyIndex + 1) + 1]
         /\ error' = Null
         /\ last' = Did("forward", NoResponse, Snapshot)
    ELSE /\ last' = Did("forwardIgnored", NoResponse, Snapshot)
         /\ UNCHANGED <<historyIndex, giftIdeas, error>>

\* back() is invoked at a cursor where the Back control is disabled.
CallBack ==
    /\ historyIndex <= 0
    /\ goBackInHistoryHandler
    /\ UNCHANGED <<call, occasion, isLoading, cardMessage,
                   isGeneratingMessage, giftIdeasHistory, inflight>>

\* forward() is invoked at a cursor where the Forward control is disabled.
CallForward ==
    /\ historyIndex >= Len(giftIdeasHistory) - 1
    /\ goForwardInHistoryHandler
    /\ UNCHANGED <<call, occasion, isLoading, cardMessage,
                   isGeneratingMessage, giftIdeasHistory, inflight>>

\* The application together with direct invocations of the two history
\* operations.
TrackerNext ==
    \/ Next
    \/ CallBack
    \/ CallForward

TrackerSpec == Init /\ [][TrackerNext]_vars

\* The pure helpers applied to every input of the sample sets.
HelperNext ==
    \/ \E link \in Links, name \in Names : ApplyRewriter(link, name)
    \/ \E c \in CriteriaRecords : ApplyPrompts(c)

HelperSpec == Init /\ [][HelperNext]_vars

\* Each gateway call resolves or rejects once (fetch() always settles).
LiveSpec ==
    /\ Spec
    /\ WF_vars(\E i \in 1..Len(inflight), resp \in Responses :
                   FetchSettle(i, resp))
    /\ WF_vars(\E i \in 1..Len(inflight), resp \in Responses :
                   MessageSettle(i, resp))

TypeOK ==
    /\ isLoading \in BOOLEAN
    /\ isGeneratingMessage \in BOOLEAN
    /\ historyIndex \in -1..MaxHistory
    /\ Len(giftIdeasHistory) <= MaxHistory

-----------------------------------------------------------------------------
(* Properties *)

FetchSettled == last.op \in {"fetchPublished", "fetchShapeError", "fetchFailed"}
MessageStep == last.op \in {"messageStart", "messageDone", "messageFailed"}

\* The gateway answered the last request with a non-success HTTP status.
HttpFailure == ~last.resp.transport /\ last.resp.status \notin 200..299
\* The gateway call of the last request failed (transport or HTTP status).
GatewayFailure == last.resp.transport \/ HttpFailure

NonEmptyString(v) == v.type = "string" /\ v.s # <<>>

\* C1: in every reachable state the history cursor satisfies
\* -1 <= historyIndex <= Len(giftIdeasHistory) - 1.
C1_CursorInRange ==
    /\ -1 <= historyIndex
    /\ historyIndex <= Len(giftIdeasHistory) - 1

\* A fetch started after going back has pushed: the cursor is the new last
\* index of a truncated history.
C1_Witness ==
    /\ last.op = "fetchPublished"
    /\ last.pre.historyIndex < Len(last.pre.giftIdeasHistory) - 1
    /\ historyIndex = Len(giftIdeasHistory) - 1
    /\ historyIndex >= 1

\* C2: immediately after an effective back(), an effective forward() and a
\* push by a successful fetch, giftIdeas is the history entry at the cursor.
C2_DisplayedIsEntryAtCursor ==
    last.op \in {"back", "forward", "fetchPublished"} =>
        /\ historyIndex \in 0..(Len(giftIdeasHistory) - 1)
        /\ giftIdeas = giftIdeasHistory[historyIndex + 1]

\* back() has just replaced the displayed ideas by a different entry.
C2_Witness ==
    /\ last.op = "back"
    /\ giftIdeas # last.pre.giftIdeas
    /\ giftIdeas # giftIdeasHistory[historyIndex + 2]

\* C3: a push by a successful fetch started with history H and cursor c
\* yields the first c+1 entries of H followed by the new entry, with the
\* cursor at c+1, the new last index; in particular from three entries and
\* cursor 0 it yields two entries, the first one kept, and cursor 1.
C3_PushTruncates ==
    last.op = "fetchPublished" =>
        LET H == last.pre.giftIdeasHistory
            c == last.pre.historyIndex
        IN  /\ giftIdeasHistory = SubSeq(H, 1, c + 1) \o <<giftIdeas>>
            /\ historyIndex = c + 1
            /\ historyIndex = Len(giftIdeasHistory) - 1
            /\ (Len(H) = 3 /\ c = 0) =>
                   /\ Len(giftIdeasHistory) = 2
                   /\ giftIdeasHistory[1] = H[1]
                   /\ historyIndex = 1

\* E1, E2, E3 were pushed, back() ran twice, and E4 has just been pushed.
C3_Witness ==
    /\ last.op = "fetchPublished"
    /\ Len(last.pre.giftIdeasHistory) = 3
    /\ last.pre.historyIndex = 0
    /\ Len(giftIdeasHistory) = 2
    /\ giftIdeasHistory[2] # last.pre.giftIdeasHistory[2]

\* C4: at most one gateway request is in flight: the two loading flags are
\* never both true, each flag is true exactly while its request is pending,
\* and no fetch can start while a request is pending.
C4_SingleInFlight ==
    /\ Len(inflight) <= 1
    /\ ~(isLoading /\ isGeneratingMessage)
    /\ isLoading <=> (\E i \in 1..Len(inflight) : inflight[i].op = "fetch")
    /\ isGeneratingMessage <=>
          (\E i \in 1..Len(inflight) : inflight[i].op = "message")
    /\ Len(inflight) >= 1 => (FindGiftsDisabled /\ RefreshDisabled)

\* A message generation is pending while ideas are on display and an
\* occasion is chosen, so only the flags keep Refresh disabled.
C4_Witness ==
    /\ isGeneratingMessage
    /\ Len(giftIdeas) > 0
    /\ ~IsBlank(occasion)
    /\ Len(inflight) = 1

\* C5 as stated: after a fetch that failed at the gateway, giftIdeas equals
\* what was displayed before the fetch was triggered.
C5_ResultsAsBeforeFetch ==
    (last.op = "fetchFailed" /\ GatewayFailure) =>
        giftIdeas = last.pre.giftIdeas

\* C5 amended: after a fetch that failed at the gateway, giftIdeas is empty
\* (entry to the fetch cleared it and the failure leaves it alone), so it
\* equals what was displayed before the fetch exactly when nothing was
\* displayed; the history and the cursor are those from before the fetch.
C5_ResultsClearedByEntry ==
    (last.op = "fetchFailed" /\ GatewayFailure) =>
        /\ giftIdeas = <<>>
        /\ (giftIdeas = last.pre.giftIdeas) <=> (last.pre.giftIdeas = <<>>)
        /\ giftIdeasHistory = last.pre.giftIdeasHistory
        /\ historyIndex = last.pre.historyIndex

\* A refresh of displayed ideas has just failed with HTTP 500.
C5_Witness ==
    /\ last.op = "fetchFailed"
    /\ last.resp.status = 500
    /\ last.pre.giftIdeas # <<>>

\* C6: after a fetch answered with a non-success HTTP status, whatever the
\* response body, error is a non-empty string containing the status code.
C6_ErrorCarriesStatus ==
    (FetchSettled /\ HttpFailure) =>
        /\ last.op = "fetchFailed"
        /\ NonEmptyString(error)
        /\ Includes(error.s, <<StatusString(last.resp.status)>>)

\* The ideas the orchestrator is to publish for a parsed array.
RECURSIVE Rewritten(_)
Rewritten(items) ==
    IF items = <<>> THEN <<>>
    ELSE <<[name |-> Head(items).name,
            description |-> Head(items).description,
            purchaseLink |->
                Str(processRetailerLink(Head(items).purchaseLink,
                                        Head(items).name).s)]>>
         \o Rewritten(Tail(items))

\* C7: after a fetch answered with a JSON array of n gift ideas, giftIdeas
\* holds the first min(n, 5) ideas in order with rewritten links, that
\* sequence is the history entry at the cursor, and neither giftIdeas nor any
\* history entry holds more than 5 ideas.
C7_PublishesFirstFive ==
    /\ Len(giftIdeas) <= 5
    /\ \A k \in 1..Len(giftIdeasHistory) : Len(giftIdeasHistory[k]) <= 5
    /\ (/\ FetchSettled
        /\ ~last.resp.transport
        /\ last.resp.status \in 200..299
        /\ last.resp.body = "content"
        /\ last.resp.text.json.kind = "array") =>
          LET items == last.resp.text.json.items
              n == Len(items)
          IN  /\ last.op = "fetchPublished"
              /\ Len(giftIdeas) = (IF n <= 5 THEN n ELSE 5)
              /\ giftIdeas = Rewritten(SubSeq(items, 1, Len(giftIdeas)))
              /\ giftIdeasHistory[historyIndex + 1] = giftIdeas
              /\ (last.pre.giftIdeasHistory = <<>> =>
                     Len(giftIdeasHistory) = 1)

\* C8: after a fetch answered with JSON that is not an array, error is a
\* non-empty string, the history and the cursor are those from before the
\* fetch, and isLoading is false.
C8_NonArrayNoPush ==
    (/\ FetchSettled
     /\ ~last.resp.transport
     /\ last.resp.status \in 200..299
     /\ last.resp.body = "content"
     /\ last.resp.text.json.kind = "object") =>
        /\ last.op = "fetchShapeError"
        /\ NonEmptyString(error)
        /\ giftIdeasHistory = last.pre.giftIdeasHistory
        /\ historyIndex = last.pre.historyIndex
        /\ ~isLoading

\* A fetch over an existing history has just ended with the shape error.
C8_Witness ==
    /\ last.op = "fetchShapeError"
    /\ last.resp.text.json.kind = "object"
    /\ Len(giftIdeasHistory) >= 2
    /\ error = ShapeErrorMessage

\* C9: every fetch and every message generation that starts reaches a
\* terminal transition, and its loading flag is false after the success and
\* after the failure transition.
C9_LoadingEnds ==
    /\ [](FetchSettled => ~isLoading)
    /\ [](last.op \in {"messageDone", "messageFailed"} => ~isGeneratingMessage)
    /\ (isLoading ~> (FetchSettled /\ ~isLoading))
    /\ (isGeneratingMessage ~>
           (last.op \in {"messageDone", "messageFailed"}
            /\ ~isGeneratingMessage))

\* A fetch has just taken its failure transition and the flag is down.
C9_Witness ==
    /\ last.op = "fetchFailed"
    /\ ~isLoading
    /\ inflight = <<>>
    /\ NonEmptyString(error)

\* C10: at its start, on success and on failure, card-message generation
\* leaves giftIdeasHistory, historyIndex, giftIdeas, isLoading and the
\* criteria as they were when it was triggered.
C10_MessageFrame ==
    MessageStep =>
        /\ giftIdeasHistory = last.pre.giftIdeasHistory
        /\ historyIndex = last.pre.historyIndex
        /\ giftIdeas = last.pre.giftIdeas
        /\ isLoading = last.pre.isLoading
        /\ occasion = last.pre.occasion

\* A message generation has just failed while ideas from a history of two
\* entries are on display.
C10_Witness ==
    /\ last.op = "messageFailed"
    /\ giftIdeas # <<>>
    /\ historyIndex >= 1
    /\ cardMessage = CardErrorText

\* C11: back() at a cursor <= 0 and forward() at a cursor >= length-1 leave
\* the cursor, the history, the displayed results and the error unchanged.
C11_EdgeNavigationNoOp ==
    LET pre == last.pre
        same == /\ historyIndex = pre.historyIndex
                /\ giftIdeasHistory = pre.giftIdeasHistory
                /\ giftIdeas = pre.giftIdeas
                /\ error = pre.error
    IN  /\ (last.op \in {"back", "backIgnored"} /\ pre.historyIndex <= 0)
              => same
        /\ (/\ last.op \in {"forward", "forwardIgnored"}
            /\ pre.historyIndex >= Len(pre.giftIdeasHistory) - 1) => same

\* back() has just been invoked at cursor 0 while an error was displayed.
C11_Witness ==
    /\ last.op = "backIgnored"
    /\ last.pre.historyIndex = 0
    /\ NonEmptyString(last.pre.error)
    /\ Len(giftIdeasHistory) >= 1

RewriterApplied == call.fn = "processRetailerLink"

StartsWith(s, prefix) ==
    Len(s) >= Len(prefix) /\ SubSeq(s, 1, Len(prefix)) = prefix

EndsWith(s, suffix) ==
    /\ Len(s) >= Len(suffix)
    /\ SubSeq(s, Len(s) - Len(suffix) + 1, Len(s)) = suffix

\* C12: the Link Rewriter never raises, whatever the link and the gift name
\* (missing, non-string or not encodable names included), and it returns "#"
\* for a non-string link, an empty link and a link that fails URL parsing.
C12_RewriterNeverRaises ==
    RewriterApplied =>
        /\ ~call.out.threw
        /\ (\/ call.link.type # "string"
            \/ call.link.s = <<>>
            \/ ~ParsesAsURL(call.link.s)) => call.out.s = <<"#">>

\* C13: for a parseable link the result is fixed by the first rule that the
\* hostname matches, in the order Amazon, Etsy, Target, Best Buy, else the
\* link unchanged: an Amazon hostname yields the search URL on that hostname
\* with the affiliate tag, and retailer names outside the hostname do not
\* count.
C13_DispatchByHostname ==
    (RewriterApplied /\ call.link.type = "string"
                     /\ ParsesAsURL(call.link.s)) =>
        LET host == SubSeq(call.link.s, 2, 1 + HostLen(call.link.s, 2))
            out == call.out.s
            onHost(domain) == Includes(host, domain)
        IN  /\ ~call.out.threw
            /\ IF \E d \in amazonDomains : onHost(d)
               THEN /\ StartsWith(out, <<"https://">> \o host \o <<"/s?k=">>)
                    /\ EndsWith(out, <<"&tag=", "realstory-20">>)
               ELSE IF onHost(<<"etsy", ".com">>)
               THEN StartsWith(out, <<"https://", "www.", "etsy", ".com",
                                      "/search?q=">>)
               ELSE IF onHost(<<"target", ".com">>)
               THEN StartsWith(out, <<"https://", "www.", "target", ".com",
                                      "/s?searchTerm=">>)
               ELSE IF onHost(<<"bestbuy", ".com">>)
               THEN StartsWith(out, <<"https://", "www.", "bestbuy", ".com",
                                      "/site/searchpage.jsp?st=">>)
               ELSE out = call.link.s

PromptsBuilt == call.fn = "prompts"

\* The criteria field a clause opening announces ("none" for other tokens).
ClauseField(token) ==
    CASE token = "The occasion is " -> "occasion"
      [] token \in {"They are my ", "The recipient is my "} -> "relationship"
      [] token = "They are " -> "age"
      [] token = "Their gender is " -> "gender"
      [] token \in {"Notable events in their life include ",
                    "They have been busy with "} -> "notableEvents"
      [] token = "They are interested in " -> "interests"
      [] token = "The price range should be " -> "priceRange"
      [] OTHER -> "none"

\* The fields of the clauses of a prompt, in the order they appear.
RECURSIVE ClauseFields(_)
ClauseFields(prompt) ==
    IF prompt = <<>> THEN <<>>
    ELSE (IF ClauseField(Head(prompt)) # "none"
          THEN <<ClauseField(Head(prompt))>> ELSE <<>>)
         \o ClauseFields(Tail(prompt))

\* Number of separators that join(' ') put into a prompt.
RECURSIVE Separators(_)
Separators(prompt) ==
    IF prompt = <<>> THEN 0
    ELSE (IF Head(prompt) = " " THEN 1 ELSE 0) + Separators(Tail(prompt))

FieldIsSet(c, field) ==
    CASE field = "occasion" -> c.occasion # <<>>
      [] field = "relationship" -> c.relationship # <<>>
      [] field = "age" -> c.age # <<>>
      [] field = "gender" -> c.gender # <<>>
      [] field = "notableEvents" -> c.notableEvents # <<>>
      [] field = "interests" -> c.interests # <<>>
      [] field = "priceRange" -> c.minPrice # <<>> \/ c.maxPrice # <<>>

\* The fields of `order` that are set in c, in that order.
RECURSIVE SetFields(_, _)
SetFields(c, order) ==
    IF order = <<>> THEN <<>>
    ELSE (IF FieldIsSet(c, Head(order)) THEN <<Head(order)>> ELSE <<>>)
         \o SetFields(c, Tail(order))

StatedOrder ==
    <<"occasion", "relationship", "age", "gender", "notableEvents",
      "interests", "priceRange">>

MessageOrder ==
    <<"occasion", "relationship", "age", "gender", "interests",
      "notableEvents">>

\* C14 as stated: both prompts hold exactly one clause per non-empty field,
\* none for an empty field, in the order occasion, relationship, age, gender,
\* notableEvents, interests, price range.
C14_BothPromptsStatedOrder ==
    PromptsBuilt =>
        /\ ClauseFields(call.giftPrompt) = SetFields(call.criteria, StatedOrder)
        /\ ClauseFields(call.messagePrompt)
              = SetFields(call.criteria, StatedOrder)

\* C14 amended: the gift prompt holds exactly one clause per non-empty field
\* in the stated order; the message prompt holds exactly one clause per
\* non-empty field among occasion, relationship, age, gender, interests,
\* notableEvents, in that order, and no price-range clause; neither prompt
\* holds a separator for an omitted clause.
C14_PromptClauses ==
    PromptsBuilt =>
        /\ ClauseFields(call.giftPrompt) = SetFields(call.criteria, StatedOrder)
        /\ ClauseFields(call.messagePrompt)
              = SetFields(call.criteria, MessageOrder)
        /\ Separators(call.giftPrompt) = Len(ClauseFields(call.giftPrompt))
        /\ Separators(call.messagePrompt)
              = Len(ClauseFields(call.messagePrompt))

\* The prompts were built from criteria with interests, notable events and a
\* maximum price set and the relationship left empty.
C14_Witness ==
    /\ PromptsBuilt
    /\ call.criteria.interests # <<>>
    /\ call.criteria.notableEvents # <<>>
    /\ call.criteria.maxPrice # <<>>
    /\ call.criteria.relationship = <<>>
    /\ Len(ClauseFields(call.giftPrompt)) > Len(ClauseFields(call.messagePrompt))

\* C15: while a request is pending the Back and Forward controls are
\* disabled, the cursor and the history are those seen when the request was
\* triggered, and the cursor captured by a pending fetch equals the current
\* cursor, the one its completion increments.
C15_NoNavigationInFlight ==
    Len(inflight) >= 1 =>
        /\ BackDisabled /\ ForwardDisabled
        /\ historyIndex = last.pre.historyIndex
        /\ giftIdeasHistory = last.pre.giftIdeasHistory
        /\ \A i \in 1..Len(inflight) :
              inflight[i].op = "fetch" => inflight[i].historyIndex = historyIndex

\* A fetch is pending at a cursor with entries on both sides, where only the
\* loading flag keeps Back and Forward disabled.
C15_Witness ==
    /\ Len(inflight) = 1
    /\ inflight[1].op = "fetch"
    /\ historyIndex >= 1
    /\ historyIndex < Len(giftIdeasHistory) - 1
====
